---- MODULE Spec2Model ----
(***************************************************************************)
(* Scanner Bot: the file-intake pipeline of the two programs of the        *)
(* repository.                                                             *)
(*   variant "main"   : src/unnamed/part_000 (processEvent, saveAndArchive)*)
(*   variant "legacy" : src/scanner-bot.go   (processFileWithDelay,        *)
(*                      finalizeFiles)                                     *)
(* One run of the model is one run of one of the two programs; the         *)
(* variant is fixed in Init, and so are the set of paths the scanner      *)
(* writes to and the family of texts the model answers with in the run.   *)
(* The file system, the change notifications and the remote model service *)
(* are the environment: every call the code checks for an error may fail. *)
(***************************************************************************)
EXTENDS Integers, Sequences, FiniteSets, TLC

\* ------------------------------------------------------------- bounds
\* Number of tasks that may run at a time for one path (a finished task's slot
\* is reused).
MaxTasks == 2
\* Number of files the scanner drops into the watch directory in one run.
MaxArrivals == 2
\* waitForStableFile's two durations, in units of its 1 s poll
\* (10 s and 5 min in the source), scaled down.
StabilityPolls == 2
MaxWaitPolls == 3

\* ------------------------------------------------------------- values
Variants == {"main", "legacy"}

\* A watched path is <<stem, extension>>; filepath.Ext(p) is p[2].
PathSets ==
  { {<<"scan", ".PDF">>}, {<<"note", ".txt">>} }

\* Two documents of the same extension, for the runs in which two tasks work
\* at the same time.
PairPaths == { <<"scan", ".PDF">>, <<"page", ".PDF">> }

AllPaths == (UNION PathSets) \cup PairPaths

Ext(p) == p[2]

\* Mutant: the extension is compared as it is written.
ToLowerIdentity(e) == e

\* strings.ToLower on the extensions that occur.
ToLower(e) ==
  CASE e = ".PDF" -> ".pdf"
    [] e = ".JPG" -> ".jpg"
    [] OTHER -> e

AcceptedExt(p) == ToLower(Ext(p)) \in {".jpg", ".jpeg", ".png", ".pdf"}

\* filepath.Base of a watched path: the name without its directory.
Base(p) == p

\* File contents are byte sequences; <<>> is a file of size zero.
Docs == { <<1, 2>>, <<3, 4>> }

\* What a file being written may hold: the prefixes of the documents.
Prefixes == { SubSeq(d, 1, n) : d \in Docs, n \in 0..2 }

Size(c) == Len(c)

\* fsnotify operations.
Kinds == {"create", "write", "rename", "chmod", "remove"}

\* ReceiptData; a vendor is a sequence of characters.  R3's category is not
\* one of those the prompt names.
R1 == [Date |-> "2024-01-05", Vendor |-> <<"A", " ", "/", "B">>, Category |-> "Grocery", Amount |-> 1200]
R2 == [Date |-> "", Vendor |-> <<" ">>, Category |-> "", Amount |-> 0]

\* The zero value of ReceiptData.
ZeroReceipt == [Date |-> "", Vendor |-> <<>>, Category |-> "", Amount |-> 0]
R3 == [Date |-> "2024-01-05", Vendor |-> <<"A", " ", "/", "B">>, Category |-> "Travel", Amount |-> 1200]

\* The model's reply: the text of the first candidate part, by the JSON value
\* it holds.  "object" is an object whose fields fit ReceiptData, "badobject"
\* one whose total_amount is a string, "array" an array of such objects, "null"
\* the text null, "other" a number, a string or a text that is not JSON.
Responses ==
  { [shape |-> "object", recs |-> <<R1>>],
    [shape |-> "object", recs |-> <<R3>>],
    [shape |-> "badobject", recs |-> <<>>],
    [shape |-> "array", recs |-> <<>>],
    [shape |-> "array", recs |-> <<R1, R2>>],
    [shape |-> "null", recs |-> <<>>],
    [shape |-> "other", recs |-> <<>>] }

\* A run draws the replies from one of two families: records of the
\* categories the prompt names, or a record of another category and null.
ReplySets ==
  { {r \in Responses : r.shape \in {"array", "badobject", "other"} \/ r.recs = <<R1>>},
    {r \in Responses : r.shape \in {"null", "other"} \/ r.recs = <<R3>>} }

NoResp == [shape |-> "none", recs |-> <<>>]

Today == "2026-01-01"

\* A goroutine's locals.  moved: robustMove returned nil.  Two history fields
\* serve the claims: doc, the bytes of the source when the task opened it for
\* upload, and reup, whether a record of that file was committed before.
\* tick is the parity of the 1 s sleeps of the loop that polls the asset,
\* window the sizes waitForStableFile sampled on its latest polls, one per
\* second, waitErr the error it returned, resp the text that was parsed, and
\* renameRes how the os.Rename of robustMove ended, and attempts the indices of
\* the records saveAndArchive has called saveProcessedFile for.
NoDoc == <<-1>>

NoTask == [pc |-> "idle", path |-> <<"", "">>, lastSize |-> -1, stableFor |-> 0,
           elapsed |-> 0, upState |-> "none", dataList |-> <<>>, err |-> FALSE,
           idx |-> 0, successCount |-> 0, dst |-> <<"", "">>, off |-> 0,
           moved |-> FALSE, reup |-> FALSE, doc |-> <<-1>>, tick |-> 0,
           window |-> <<>>, waitErr |-> "", resp |-> [shape |-> "none", recs |-> <<>>],
           renameRes |-> "", attempts |-> <<>>]

\* A goroutine is named by the path it was spawned for and a slot number.
TaskIds == AllPaths \X (1..MaxTasks)

VARIABLES
  variant,      \* which program runs
  paths,        \* the paths the scanner uses in this run
  replies,      \* the texts the model may answer with in this run
  alive,        \* the process has not terminated
  activeFiles,  \* sync.Map activeFiles: the In-Flight Set
  task,         \* the goroutines spawned by the event loop
  arrivals,     \* number of files dropped so far
  fs,           \* files: <<directory, name>> -> content
  dirs,         \* directories created under the destination root
  asset,        \* remote store: the state of each task's uploaded asset
  delCalls,     \* number of DeleteFile calls issued for each task's asset
  processed     \* per path: a record of the file now at the path was committed

vars == <<variant, paths, replies, alive, activeFiles, task, arrivals, fs, dirs,
          asset, delCalls, processed>>

WatchFile(p) == <<"watch", p>>
OriginalsFile(p) == <<"originals", Base(p)>>

Exists(f) == f \in DOMAIN fs

\* fs with file f holding content c.
WriteFile(files, f, c) ==
  [x \in (DOMAIN files) \cup {f} |-> IF x = f THEN c ELSE files[x]]

\* fs without file f.
RemoveFile(files, f) == [x \in (DOMAIN files) \ {f} |-> files[x]]

Init ==
  /\ variant \in Variants
  /\ paths \in PathSets
  /\ replies \in ReplySets
  /\ alive = TRUE
  /\ activeFiles = {}
  /\ task = [t \in TaskIds |-> NoTask]
  /\ arrivals = 0
  /\ fs = << >>
  /\ dirs = {}
  /\ asset = [t \in TaskIds |-> "none"]
  /\ delCalls = [t \in TaskIds |-> 0]
  /\ processed = [p \in AllPaths |-> FALSE]

\* ------------------------------------------------------- environment
\* The scanner drops a new file at a path where none is.
EnvCreate(p, c) ==
  /\ alive
  /\ arrivals < MaxArrivals
  /\ ~Exists(WatchFile(p))
  /\ fs' = WriteFile(fs, WatchFile(p), c)
  /\ arrivals' = arrivals + 1
  /\ processed' = [processed EXCEPT ![p] = FALSE]
  /\ UNCHANGED <<variant, paths, replies, alive, activeFiles, task, dirs, asset, delCalls>>

\* The pipeline has found the file at p ready and works on it.
Claimed(p) ==
  \E t \in TaskIds : task[t].path = p /\ task[t].pc \notin {"idle", "wait", "debounce", "growth"}

\* The scanner appends to a file it is still writing.  It has finished with a
\* file by the time the pipeline has found it ready.
EnvWrite(p) ==
  /\ alive
  /\ Exists(WatchFile(p))
  /\ ~Claimed(p)
  /\ \E c \in Prefixes :
       /\ Len(c) = Len(fs[WatchFile(p)]) + 1
       /\ SubSeq(c, 1, Len(c) - 1) = fs[WatchFile(p)]
       /\ fs' = WriteFile(fs, WatchFile(p), c)
  /\ processed' = [processed EXCEPT ![p] = FALSE]
  /\ UNCHANGED <<variant, paths, replies, alive, activeFiles, task, arrivals, dirs, asset, delCalls>>

\* -------------------------------------------------------- event loop
\* event.Has(...) of the loop's if, per program.
Triggers(k) ==
  IF variant = "main"
    THEN k \in {"write", "create", "rename", "chmod"}
    ELSE k \in {"write", "create"}

\* Mutant: a plain Store, which never reports the key as present.
StoreOnly(m, name) == <<m \cup {name}, FALSE>>

\* sync.Map.LoadOrStore(name, true): <<the map afterwards, loaded>>.
LoadOrStore(m, name) == <<m \cup {name}, name \in m>>

FirstPc == IF variant = "main" THEN "wait" ELSE "debounce"

\* The slots no running goroutine holds, and the one "go" takes.
FreeSlots(p) == {t \in TaskIds : t[1] = p /\ task[t].pc = "idle"}
NewSlot(p) == CHOOSE t \in FreeSlots(p) : \A u \in FreeSlots(p) : t[2] <= u[2]

\* One iteration of the loop's select on watcher.Events.
HandleEvent(p, k) ==
  /\ alive
  /\ IF Triggers(k)
       THEN LET r == LoadOrStore(activeFiles, p) IN
            IF r[2]
              THEN UNCHANGED vars
              ELSE /\ FreeSlots(p) # {}
                   /\ activeFiles' = r[1]
                   /\ task' = [task EXCEPT ![NewSlot(p)] =
                                 [NoTask EXCEPT !.pc = FirstPc, !.path = p]]
                   /\ UNCHANGED <<variant, paths, replies, alive, arrivals, fs, dirs, asset,
                                  delCalls, processed>>
       ELSE UNCHANGED vars

\* One iteration of the loop's select on watcher.Errors: logged.
HandleWatcherError ==
  /\ alive
  /\ UNCHANGED vars

\* A task returns from processEvent / processFileWithDelay: it stands at its
\* deferred activeFiles.Delete with the locals the claims speak of.
Finish(t, tk) ==
  /\ task' = [task EXCEPT ![t] = [NoTask EXCEPT !.pc = "return", !.path = tk.path,
                                   !.successCount = tk.successCount,
                                   !.moved = tk.moved, !.reup = tk.reup,
                                   !.doc = tk.doc, !.err = tk.err, !.idx = tk.idx,
                                   !.waitErr = tk.waitErr, !.renameRes = tk.renameRes,
                                   !.attempts = tk.attempts]]
  /\ UNCHANGED activeFiles

\* Mutant: the goroutine ends without the deferred activeFiles.Delete.
ReturnKeepsEntry(t) ==
  /\ alive
  /\ task[t].pc = "return"
  /\ task' = [task EXCEPT ![t] = NoTask]
  /\ asset' = [asset EXCEPT ![t] = "none"]
  /\ delCalls' = [delCalls EXCEPT ![t] = 0]
  /\ UNCHANGED <<variant, paths, replies, alive, activeFiles, arrivals, fs, dirs, processed>>

\* The deferred activeFiles.Delete(path); the goroutine ends, and the remote
\* store's record of its asset leaves the model with it.
Return(t) ==
  /\ alive
  /\ task[t].pc = "return"
  /\ activeFiles' = activeFiles \ {task[t].path}
  /\ task' = [task EXCEPT ![t] = NoTask]
  /\ asset' = [asset EXCEPT ![t] = "none"]
  /\ delCalls' = [delCalls EXCEPT ![t] = 0]
  /\ UNCHANGED <<variant, paths, replies, alive, arrivals, fs, dirs, processed>>

\* ------------------------------------------------ waitForStableFile
\* os.Stat of a watched path: "notexist", "error" (any other failure), or "ok".
StatResults(p) == IF Exists(WatchFile(p)) THEN {"ok", "error"} ELSE {"notexist", "error"}

\* Mutant: the test is >= instead of >.
TimedOutEarly(tk) == tk.elapsed >= MaxWaitPolls

\* time.Since(startTime) > maxWaitTime, one poll being one second.
TimedOut(tk) == tk.elapsed > MaxWaitPolls

\* The loop's test for "Stable": the size is the one last seen, has been for the
\* threshold, and is not zero.
IsStable(tk, currentSize) ==
  /\ currentSize = tk.lastSize
  /\ tk.stableFor >= StabilityPolls
  /\ currentSize > 0

Min(a, b) == IF a < b THEN a ELSE b

\* Mutant: the "stable since" time is not reset when the size changes.
AfterPollNoRestart(tk, currentSize) ==
  [tk EXCEPT !.lastSize = currentSize,
             !.stableFor = IF tk.lastSize = -1 THEN 1
                           ELSE Min(tk.stableFor + 1, StabilityPolls),
             !.elapsed = tk.elapsed + 1]

\* The locals after one iteration that did not return, its 1 s sleep included:
\* stableFor is time.Since(stableSince) at the next poll.
AfterPoll(tk, currentSize) ==
  [tk EXCEPT !.lastSize = currentSize,
             !.stableFor = IF currentSize # tk.lastSize THEN 1
                           ELSE Min(tk.stableFor + 1, StabilityPolls),
             !.elapsed = tk.elapsed + 1]

\* The latest StabilityPolls samples, the newest last.
Push(window, size) ==
  LET w == Append(window, size) IN
  IF Len(w) > StabilityPolls THEN Tail(w) ELSE w

\* processEvent up to its extension filter: one iteration of waitForStableFile's
\* loop and, when it returns nil, the filter.
WaitPoll(t) ==
  LET tk == task[t] IN
  /\ alive
  /\ tk.pc = "wait"
  /\ UNCHANGED <<variant, paths, replies, alive, arrivals, fs, dirs, asset, delCalls, processed>>
  /\ IF TimedOut(tk)
       THEN Finish(t, [tk EXCEPT !.waitErr = "timeout"])
       ELSE \E st \in StatResults(tk.path) :
              IF st # "ok"
                THEN Finish(t, [tk EXCEPT !.waitErr = st])
                ELSE LET currentSize == Size(fs[WatchFile(tk.path)]) IN
                     IF IsStable(tk, currentSize)
                       THEN IF AcceptedExt(tk.path)
                              THEN /\ task' = [task EXCEPT ![t] = [tk EXCEPT !.pc = "open"]]
                                   /\ UNCHANGED activeFiles
                              ELSE Finish(t, tk)
                       ELSE /\ task' = [task EXCEPT ![t] =
                                          [AfterPoll(tk, currentSize) EXCEPT
                                             !.window = Push(tk.window, currentSize)]]
                            /\ UNCHANGED activeFiles

\* ---------------------------------------------------- analyzeReceipt
UploadStates == {"processing", "active", "failed"}

\* json.Unmarshal(text, &single) with single the zero ReceiptData: an object
\* fills the fields; the JSON null "has no effect" on a struct and is no error;
\* an array, a scalar, a field of the wrong type and a text that is not JSON
\* are errors.
UnmarshalReceipt(resp) ==
  CASE resp.shape = "object" -> [ok |-> TRUE, val |-> resp.recs[1]]
    [] resp.shape = "null" -> [ok |-> TRUE, val |-> ZeroReceipt]
    [] OTHER -> [ok |-> FALSE, val |-> ZeroReceipt]

\* json.Unmarshal(text, &list) with list a nil []ReceiptData: an array gives
\* its elements in order, null leaves the slice nil, anything else is an error.
UnmarshalList(resp) ==
  CASE resp.shape = "array" -> [ok |-> TRUE, val |-> resp.recs]
    [] resp.shape = "null" -> [ok |-> TRUE, val |-> <<>>]
    [] OTHER -> [ok |-> FALSE, val |-> <<>>]

\* json.Unmarshal into one ReceiptData, then into []ReceiptData.
parseGeminiResponse(resp) ==
  LET single == UnmarshalReceipt(resp)
      list == UnmarshalList(resp)
  IN  IF single.ok THEN [err |-> FALSE, dataList |-> <<single.val>>]
      ELSE IF list.ok THEN [err |-> FALSE, dataList |-> list.val]
      ELSE [err |-> TRUE, dataList |-> <<>>]

\* scanner-bot.go: json.Unmarshal into one ReceiptData only.
parseSingle(resp) ==
  LET single == UnmarshalReceipt(resp)
  IN  IF single.ok THEN [err |-> FALSE, dataList |-> <<single.val>>]
      ELSE [err |-> TRUE, dataList |-> <<>>]

Parse(resp) == IF variant = "main" THEN parseGeminiResponse(resp) ELSE parseSingle(resp)

\* Mutant: the originals directory is made up front, before the upload.
UploadMakesDir(t) ==
  LET tk == task[t] IN
  /\ alive
  /\ tk.pc = "open"
  /\ dirs' = dirs \cup {"originals"}
  /\ UNCHANGED <<variant, paths, replies, alive, arrivals, fs, delCalls, processed>>
  /\ \/ /\ Finish(t, tk)
        /\ UNCHANGED asset
     \/ /\ Exists(WatchFile(tk.path))
        /\ \E s \in {"processing", "active", "failed"} :
             /\ asset' = [asset EXCEPT ![t] = s]
             /\ task' = [task EXCEPT ![t] = [NoTask EXCEPT !.pc = "poll", !.path = tk.path,
                                                       !.upState = s,
                                                       !.reup = processed[tk.path],
                                                       !.doc = fs[WatchFile(tk.path)]]]
        /\ UNCHANGED activeFiles

\* os.Open of the source and client.UploadFile; on success the deferred
\* DeleteFile is registered.
Upload(t) ==
  LET tk == task[t] IN
  /\ alive
  /\ tk.pc = "open"
  /\ UNCHANGED <<variant, paths, replies, alive, arrivals, fs, dirs, delCalls, processed>>
  /\ \/ \* os.Open fails, or UploadFile fails
        /\ Finish(t, tk)
        /\ UNCHANGED asset
     \/ /\ Exists(WatchFile(tk.path))
        /\ \E s \in UploadStates :
             /\ asset' = [asset EXCEPT ![t] = s]
             /\ task' = [task EXCEPT ![t] = [NoTask EXCEPT !.pc = "poll", !.path = tk.path,
                                                       !.upState = s,
                                                       !.reup = processed[tk.path],
                                                       !.doc = fs[WatchFile(tk.path)]]]
        /\ UNCHANGED activeFiles

\* One iteration of the loop "for upFile.State == FileStateProcessing".
Poll(t) ==
  LET tk == task[t] IN
  /\ alive
  /\ tk.pc = "poll"
  /\ tk.upState = "processing"
  /\ UNCHANGED <<variant, paths, replies, alive, activeFiles, arrivals, fs, dirs, delCalls, processed>>
  /\ \/ \* client.GetFile fails
        /\ task' = [task EXCEPT ![t] = [tk EXCEPT !.pc = "cleanup", !.err = TRUE,
                                                  !.tick = 0]]
        /\ UNCHANGED asset
     \/ \E s \in UploadStates :
          /\ asset' = [asset EXCEPT ![t] = s]
          /\ task' = [task EXCEPT ![t] =
                        [tk EXCEPT !.upState = s,
                                   !.tick = IF s = "processing" THEN 1 - tk.tick
                                            ELSE tk.tick]]

\* Mutant: an asset that failed processing is uploaded again.
GenerateRetries(t) ==
  LET tk == task[t] IN
  /\ alive
  /\ tk.pc = "poll"
  /\ tk.upState # "processing"
  /\ UNCHANGED <<variant, paths, replies, alive, activeFiles, arrivals, fs, dirs, asset, delCalls, processed>>
  /\ IF tk.upState # "active"
       THEN task' = [task EXCEPT ![t] = [tk EXCEPT !.pc = "open", !.tick = 0]]
       ELSE task' = [task EXCEPT ![t] = [tk EXCEPT !.pc = "cleanup", !.err = TRUE,
                                                   !.tick = 0]]

\* After the loop: the state check, GenerateContent, the candidates check and
\* the parse.
Generate(t) ==
  LET tk == task[t] IN
  /\ alive
  /\ tk.pc = "poll"
  /\ tk.upState # "processing"
  /\ UNCHANGED <<variant, paths, replies, alive, activeFiles, arrivals, fs, dirs, asset, delCalls, processed>>
  /\ IF tk.upState # "active"
       THEN task' = [task EXCEPT ![t] = [tk EXCEPT !.pc = "cleanup", !.err = TRUE,
                                                   !.tick = 0]]
       ELSE \/ \* GenerateContent fails, or the response has no candidate or part
               task' = [task EXCEPT ![t] = [tk EXCEPT !.pc = "cleanup", !.err = TRUE,
                                                      !.tick = 0]]
            \/ \E resp \in replies :
                 LET r == Parse(resp) IN
                 task' = [task EXCEPT ![t] =
                            [tk EXCEPT !.pc = IF variant = "legacy" /\ ~r.err
                                                THEN "finalize" ELSE "cleanup",
                                       !.err = r.err, !.dataList = r.dataList,
                                       !.tick = 0, !.resp = resp]]

\* Mutant: DeleteFile called at the end of the successful path, not deferred.
DeleteOnSuccess(tk) == ~tk.err

\* Whether DeleteFile runs when the function that uploaded returns as tk: it
\* is deferred, so on every return.
DeferredDelete(tk) == TRUE

\* The deferred client.DeleteFile.  In part_000 it runs when analyzeReceipt
\* returns, and processEvent goes on; in scanner-bot.go when
\* processFileWithDelay returns.
Cleanup(t) ==
  LET tk == task[t] IN
  /\ alive
  /\ tk.pc = "cleanup"
  /\ IF DeferredDelete(tk)
       THEN /\ asset' = [asset EXCEPT ![t] = "deleted"]
            /\ delCalls' = [delCalls EXCEPT ![t] = @ + 1]
       ELSE UNCHANGED <<asset, delCalls>>
  /\ UNCHANGED <<variant, paths, replies, alive, arrivals, fs, dirs, processed>>
  /\ IF variant = "main" /\ ~tk.err /\ Len(tk.dataList) > 0
       THEN /\ task' = [task EXCEPT ![t] = [tk EXCEPT !.pc = "save", !.idx = 1,
                                                      !.upState = "none"]]
            /\ UNCHANGED activeFiles
       ELSE Finish(t, tk)

\* ------------------------------------------------------- file names
RECURSIVE ReplaceAll(_, _, _)
\* strings.ReplaceAll(v, old, new) on a sequence of characters; new is a
\* sequence of characters (empty to delete).
ReplaceAll(v, old, new) ==
  IF v = <<>> THEN <<>>
  ELSE (IF Head(v) = old THEN new ELSE <<Head(v)>>) \o ReplaceAll(Tail(v), old, new)

NormalizeVendor(v) == ReplaceAll(ReplaceAll(v, " ", <<>>), "/", <<"-">>)

DefaultDate(d) == IF d = "" THEN Today ELSE d

DefaultCategory(c) == IF c = "" THEN "Unsorted" ELSE c

\* processedDir: the directory under the destination root.
ProcessedDir(data) == DefaultCategory(data.Category)

\* processedPath: <<directory, <<date, vendor, amount, extension>>>>.
ProcessedPath(srcPath, data) ==
  <<ProcessedDir(data),
    <<DefaultDate(data.Date), NormalizeVendor(data.Vendor), data.Amount, Ext(srcPath)>>>>

\* ---------------------------------------------------------- robustCopy
\* os.Create(dst): the file exists afterwards and is empty.
CopyCreate(files, dst) == WriteFile(files, dst, <<>>)

\* A write of byte b at offset off of a file holding c.
WriteAt(c, off, b) ==
  [i \in 1..(IF Len(c) > off THEN Len(c) ELSE off + 1) |->
     IF i = off + 1 THEN b ELSE IF i <= Len(c) THEN c[i] ELSE 0]

\* One round of io.Copy: the byte of src at off goes to dst at off.
CopyChunk(files, src, dst, off) ==
  WriteFile(files, dst, WriteAt(files[dst], off, files[src][off + 1]))

\* Mutant: one Read and one Write instead of io.Copy's loop.
CopyOneBuffer(files, src, off) == off >= 1 \/ off >= Len(files[src])

\* io.Copy has read src to its end.
CopyAtEOF(files, src, off) == off >= Len(files[src])

\* -------------------------------------------------------- saveAndArchive
\* Mutant: the archive step runs whatever the count.
ArchiveAlways(successCount) == successCount >= 0

\* The archive decision of saveAndArchive.
ArchiveGate(successCount) == successCount > 0

\* Mutant: the loop is left at the first record that fails.
AfterRecordAbortOnError(tk, ok) ==
  LET n == IF ok THEN tk.successCount + 1 ELSE tk.successCount
      base == [tk EXCEPT !.successCount = n, !.dst = <<"", "">>, !.off = 0]
  IN  IF variant = "legacy"
        THEN [base EXCEPT !.pc = IF ok THEN "archive" ELSE "cleanup"]
      ELSE IF ~ok
        THEN [base EXCEPT !.pc = "return"]
      ELSE IF tk.idx < Len(tk.dataList)
        THEN [base EXCEPT !.pc = "save", !.idx = tk.idx + 1]
      ELSE [base EXCEPT !.pc = "archive"]

\* The loop of saveAndArchive after record idx was attempted; ok tells whether
\* saveProcessedFile returned nil.  In scanner-bot.go finalizeFiles returns on
\* a failed copy and goes on to robustMove otherwise.
AfterRecord(tk, ok) ==
  LET n == IF ok THEN tk.successCount + 1 ELSE tk.successCount
      base == [tk EXCEPT !.successCount = n, !.dst = <<"", "">>, !.off = 0]
  IN  IF variant = "legacy"
        THEN [base EXCEPT !.pc = IF ok THEN "archive" ELSE "cleanup"]
      ELSE IF tk.idx < Len(tk.dataList)
        THEN [base EXCEPT !.pc = "save", !.idx = tk.idx + 1]
      ELSE IF ArchiveGate(n)
        THEN [base EXCEPT !.pc = "archive"]
      ELSE [base EXCEPT !.pc = "return"]

\* task t goes on as tk; a task at "return" drops its other locals.
Continue(t, tk) ==
  IF tk.pc = "return"
    THEN Finish(t, tk)
    ELSE /\ task' = [task EXCEPT ![t] = tk]
         /\ UNCHANGED activeFiles

\* The end of the commit: processEvent returns; processFileWithDelay has its
\* deferred DeleteFile to run.
AfterCommit(tk) == [tk EXCEPT !.pc = IF variant = "legacy" THEN "cleanup" ELSE "return",
                              !.dst = <<"", "">>, !.off = 0]

\* saveProcessedFile up to the start of io.Copy: MkdirAll, os.Open, os.Create.
SaveOpen(t) ==
  LET tk == [task[t] EXCEPT !.attempts = Append(@, task[t].idx)]
      data == tk.dataList[tk.idx]
      dir == ProcessedDir(data)
      dst == ProcessedPath(tk.path, data)
  IN
  /\ alive
  /\ tk.pc = "save"
  /\ UNCHANGED <<variant, paths, replies, alive, arrivals, asset, delCalls, processed>>
  /\ \/ \* MkdirAll fails
        /\ UNCHANGED <<fs, dirs>>
        /\ Continue(t, AfterRecord(tk, FALSE))
     \/ \* os.Open(src) or os.Create(dst) fails
        /\ dirs' = dirs \cup {dir}
        /\ UNCHANGED fs
        /\ Continue(t, AfterRecord(tk, FALSE))
     \/ /\ Exists(WatchFile(tk.path))
        /\ dirs' = dirs \cup {dir}
        /\ fs' = CopyCreate(fs, dst)
        /\ Continue(t, [tk EXCEPT !.pc = "copy", !.dst = dst, !.off = 0])

\* finalizeFiles up to the start of io.Copy: the two MkdirAll, whose errors
\* are dropped, then os.Open and os.Create.
FinalizeOpen(t) ==
  LET tk == task[t]
      data == tk.dataList[1]
      dir == ProcessedDir(data)
      dst == ProcessedPath(tk.path, data)
  IN
  /\ alive
  /\ tk.pc = "finalize"
  /\ UNCHANGED <<variant, paths, replies, alive, arrivals, asset, delCalls, processed>>
  /\ \E made \in SUBSET {dir, "originals"} :
       /\ dirs' = dirs \cup made
       /\ \/ \* os.Open(src) or os.Create(dst) fails
             /\ UNCHANGED fs
             /\ Continue(t, AfterRecord([tk EXCEPT !.idx = 1], FALSE))
          \/ /\ Exists(WatchFile(tk.path))
             /\ dir \in dirs'
             /\ fs' = CopyCreate(fs, dst)
             /\ Continue(t, [tk EXCEPT !.pc = "copy", !.idx = 1, !.dst = dst, !.off = 0])

\* io.Copy of robustCopy(srcPath, processedPath), one round at a time.
SaveCopy(t) ==
  LET tk == task[t]
      src == WatchFile(tk.path)
  IN
  /\ alive
  /\ tk.pc = "copy"
  /\ UNCHANGED <<variant, paths, replies, alive, arrivals, dirs, asset, delCalls>>
  /\ IF CopyAtEOF(fs, src, tk.off)
       THEN /\ UNCHANGED fs
            /\ processed' = [processed EXCEPT ![tk.path] = TRUE]
            /\ Continue(t, AfterRecord(tk, TRUE))
       ELSE \/ /\ fs' = CopyChunk(fs, src, tk.dst, tk.off)
               /\ UNCHANGED processed
               /\ Continue(t, [tk EXCEPT !.off = tk.off + 1])
            \/ \* a read or a write fails
               /\ UNCHANGED <<fs, processed>>
               /\ Continue(t, AfterRecord(tk, FALSE))

\* ----------------------------------------------------------- robustMove
\* Mutant: a link without the unlink: dst holds what src held, src stays.
RenameKeepsSource(files, src, dst) == WriteFile(files, dst, files[src])

\* os.Rename(src, dst): dst holds what src held, src is gone.
Rename(files, src, dst) == RemoveFile(WriteFile(files, dst, files[src]), src)

\* How os.Rename may end: nil, the "cross-device link" error, another error.
RenameResults == {"ok", "cross-device", "error"}

\* Mutant: the fallback is taken after any rename error.
MoveStartAnyError(files, src, dst, res, copyOpens) ==
  CASE res = "ok" -> [fs |-> Rename(files, src, dst), next |-> "done"]
    [] copyOpens -> [fs |-> CopyCreate(files, dst), next |-> "mvcopy"]
    [] OTHER -> [fs |-> files, next |-> "failed"]

\* robustMove up to the fallback's io.Copy, os.Rename having ended as res;
\* copyOpens: robustCopy's os.Open and os.Create succeed.
MoveStart(files, src, dst, res, copyOpens) ==
  CASE res = "ok" -> [fs |-> Rename(files, src, dst), next |-> "done"]
    [] res = "cross-device" /\ copyOpens ->
         [fs |-> CopyCreate(files, dst), next |-> "mvcopy"]
    [] OTHER -> [fs |-> files, next |-> "failed"]

\* archiveOriginalFile up to the fallback's io.Copy: MkdirAll (part_000 only;
\* finalizeFiles has made the directory, or not), then robustMove.
Archive(t) ==
  LET tk == task[t]
      src == WatchFile(tk.path)
      dst == OriginalsFile(tk.path)
  IN
  /\ alive
  /\ tk.pc = "archive"
  /\ UNCHANGED <<variant, paths, replies, alive, arrivals, asset, delCalls, processed>>
  /\ \/ \* MkdirAll fails (part_000)
        /\ variant = "main"
        /\ UNCHANGED <<fs, dirs>>
        /\ Continue(t, AfterCommit(tk))
     \/ \E res \in RenameResults, copyOpens \in BOOLEAN :
          LET m == MoveStart(fs, src, dst, res, copyOpens)
              r == [tk EXCEPT !.renameRes = res]
          IN
          /\ dirs' = IF variant = "main" THEN dirs \cup {"originals"} ELSE dirs
          /\ (res = "ok" \/ copyOpens) => (Exists(src) /\ "originals" \in dirs')
          /\ fs' = m.fs
          /\ Continue(t, CASE m.next = "done" -> AfterCommit([r EXCEPT !.moved = TRUE])
                            [] m.next = "mvcopy" ->
                                 [r EXCEPT !.pc = "mvcopy", !.dst = dst, !.off = 0]
                            [] OTHER -> AfterCommit(r))

\* Mutant: the source is removed although the fallback's copy failed.
MoveCopyAlwaysRemoves(t) ==
  LET tk == task[t]
      src == WatchFile(tk.path)
  IN
  /\ alive
  /\ tk.pc = "mvcopy"
  /\ UNCHANGED <<variant, paths, replies, alive, arrivals, dirs, asset, delCalls, processed>>
  /\ IF CopyAtEOF(fs, src, tk.off)
       THEN /\ UNCHANGED fs
            /\ Continue(t, [tk EXCEPT !.pc = "mvremove", !.dst = <<"", "">>, !.off = 0])
       ELSE \/ /\ fs' = CopyChunk(fs, src, tk.dst, tk.off)
               /\ Continue(t, [tk EXCEPT !.off = tk.off + 1])
            \/ /\ fs' = RemoveFile(fs, src)
               /\ Continue(t, AfterCommit(tk))

\* io.Copy of the fallback's robustCopy(src, dst), one round at a time.
MoveCopy(t) ==
  LET tk == task[t]
      src == WatchFile(tk.path)
  IN
  /\ alive
  /\ tk.pc = "mvcopy"
  /\ UNCHANGED <<variant, paths, replies, alive, arrivals, dirs, asset, delCalls, processed>>
  /\ IF CopyAtEOF(fs, src, tk.off)
       THEN /\ UNCHANGED fs
            /\ Continue(t, [tk EXCEPT !.pc = "mvremove", !.dst = <<"", "">>, !.off = 0])
       ELSE \/ /\ fs' = CopyChunk(fs, src, tk.dst, tk.off)
               /\ Continue(t, [tk EXCEPT !.off = tk.off + 1])
            \/ \* a read or a write fails: robustMove returns the error
               /\ UNCHANGED fs
               /\ Continue(t, AfterCommit(tk))

\* The fallback's os.Remove(src), whose result robustMove returns.
MoveRemove(t) ==
  LET tk == task[t]
      src == WatchFile(tk.path)
  IN
  /\ alive
  /\ tk.pc = "mvremove"
  /\ UNCHANGED <<variant, paths, replies, alive, arrivals, dirs, asset, delCalls, processed>>
  /\ \/ /\ fs' = RemoveFile(fs, src)
        /\ Continue(t, AfterCommit([tk EXCEPT !.moved = TRUE]))
     \/ /\ UNCHANGED fs
        /\ Continue(t, AfterCommit(tk))

\* ------------------------------------------------ processFileWithDelay
\* A panic of the goroutine: its deferred calls run, then the process dies.
Panic(t, tk) ==
  /\ alive' = FALSE
  /\ task' = [task EXCEPT ![t] = [NoTask EXCEPT !.pc = "panicked", !.path = tk.path]]
  /\ activeFiles' = activeFiles \ {tk.path}

\* After the 5 s debounce: the extension filter and the first os.Stat, whose
\* info is used whenever the error is not IsNotExist.
Debounce(t) ==
  LET tk == task[t] IN
  /\ tk.pc = "debounce"
  /\ alive
  /\ UNCHANGED <<variant, paths, replies, arrivals, fs, dirs, asset, delCalls, processed>>
  /\ IF ~AcceptedExt(tk.path)
       THEN Finish(t, tk) /\ UNCHANGED alive
       ELSE \E st \in StatResults(tk.path) :
              CASE st = "notexist" -> Finish(t, tk) /\ UNCHANGED alive
                [] st = "error" -> Panic(t, tk)
                [] OTHER ->
                     /\ task' = [task EXCEPT ![t] =
                          [tk EXCEPT !.pc = "growth",
                                     !.lastSize = Size(fs[WatchFile(tk.path)])]]
                     /\ UNCHANGED <<activeFiles, alive>>

\* The growth check: the second os.Stat after 1 s.
StillGrowing(statOk, finalSize, initialSize) == statOk /\ finalSize # initialSize

Growth(t) ==
  LET tk == task[t] IN
  /\ alive
  /\ tk.pc = "growth"
  /\ UNCHANGED <<variant, paths, replies, alive, arrivals, fs, dirs, asset, delCalls, processed>>
  /\ \E st \in StatResults(tk.path) :
       IF StillGrowing(st = "ok", IF st = "ok" THEN Size(fs[WatchFile(tk.path)]) ELSE 0,
                       tk.lastSize)
         THEN Finish(t, tk)
         ELSE /\ task' = [task EXCEPT ![t] = [NoTask EXCEPT !.pc = "open", !.path = tk.path]]
              /\ UNCHANGED activeFiles

TaskStep(t) ==
  \/ WaitPoll(t)
  \/ Upload(t)
  \/ Poll(t)
  \/ Generate(t)
  \/ Cleanup(t)
  \/ SaveOpen(t)
  \/ FinalizeOpen(t)
  \/ SaveCopy(t)
  \/ Archive(t)
  \/ MoveCopy(t)
  \/ MoveRemove(t)
  \/ Debounce(t)
  \/ Growth(t)
  \/ Return(t)

Next ==
  \/ \E p \in paths, c \in {<<>>} \cup Docs : EnvCreate(p, c)
  \/ \E p \in paths : EnvWrite(p)
  \/ \E p \in paths, k \in Kinds : HandleEvent(p, k)
  \/ HandleWatcherError
  \/ \E t \in TaskIds : TaskStep(t)

Spec == Init /\ [][Next]_vars

\* Two documents lie complete in the watch directory of part_000 and the model
\* reads the same record from both; their tasks run in any interleaving.
InitPair ==
  /\ variant = "main"
  /\ paths = PairPaths
  /\ replies = {[shape |-> "object", recs |-> <<R1>>]}
  /\ alive = TRUE
  /\ activeFiles = {}
  /\ task = [t \in TaskIds |-> NoTask]
  /\ arrivals = MaxArrivals
  /\ fs = WriteFile(WriteFile(<< >>, WatchFile(<<"scan", ".PDF">>), <<1, 2>>),
                    WatchFile(<<"page", ".PDF">>), <<3, 4>>)
  /\ dirs = {}
  /\ asset = [t \in TaskIds |-> "none"]
  /\ delCalls = [t \in TaskIds |-> 0]
  /\ processed = [p \in AllPaths |-> FALSE]

\* The steps of a goroutine of part_000.
TaskStepMain(t) ==
  \/ WaitPoll(t)
  \/ Upload(t)
  \/ Poll(t)
  \/ Generate(t)
  \/ Cleanup(t)
  \/ SaveOpen(t)
  \/ SaveCopy(t)
  \/ Archive(t)
  \/ MoveCopy(t)
  \/ MoveRemove(t)
  \/ Return(t)

NextPair ==
  \/ \E p \in paths, k \in Kinds : HandleEvent(p, k)
  \/ \E t \in TaskIds : TaskStepMain(t)

SpecPair == InitPair /\ [][NextPair]_vars

\* The Go scheduler does not leave the goroutines that can take a step
\* waiting for ever.
FairSpec == Spec /\ WF_vars(\E t \in TaskIds : TaskStep(t))

\* =============================================================== claims
\* The goroutines spawned for path p that have not ended.
Running(p) == {t \in TaskIds : task[t].pc \notin {"idle", "panicked"} /\ task[t].path = p}

HasFile(files, f) == f \in DOMAIN files

\* File f is the same before and after the step.
SameFile(f) ==
  /\ HasFile(fs', f) <=> HasFile(fs, f)
  /\ HasFile(fs, f) => fs'[f] = fs[f]

\* The step ends task t's commit (saveAndArchive / finalizeFiles returns).
EndsCommit(t) ==
  /\ task[t].pc \in {"save", "finalize", "copy", "archive", "mvcopy", "mvremove"}
  /\ task'[t].pc \in {"return", "cleanup"}

\* C1: at any instant at most one processing task is active for a path,
\* whatever events arrive while a task runs.
C1_AtMostOneTaskPerPath ==
  \A p \in AllPaths : Cardinality(Running(p)) <= 1

\* A task is in the middle of its copy while its path is in the In-Flight Set
\* (every event for the path is a duplicate then).
C1_Witness ==
  \E t \in TaskIds : task[t].pc = "copy" /\ task[t].path \in activeFiles

\* C2: in every state of a task that has opened its source, the complete bytes
\* of the source are at the original path or, a processed copy having
\* completed, at dest/originals/<basename>.
C2_SourceNeverLost ==
  \A t \in TaskIds :
    task[t].doc # NoDoc =>
      LET w == WatchFile(task[t].path)
          o == OriginalsFile(task[t].path)
      IN  \/ Exists(w) /\ fs[w] = task[t].doc
          \/ Exists(o) /\ fs[o] = task[t].doc /\ task[t].successCount > 0

\* The copy-then-delete fallback has completed its archive copy of a two-byte
\* source and stands before os.Remove.
C2_Witness ==
  \E t \in TaskIds :
    /\ task[t].pc = "mvremove"
    /\ Len(task[t].doc) = 2
    /\ Exists(WatchFile(task[t].path))
    /\ fs[OriginalsFile(task[t].path)] = task[t].doc

\* C3: as long as no record copy of a task has succeeded, no step of the task
\* changes the source file or the originals entry of its basename, and the
\* task never enters the archive step.
C3_NoCopyNoArchive ==
  [][\A t \in TaskIds :
       (TaskStep(t) /\ task[t].successCount = 0 /\ task'[t].successCount = 0) =>
         /\ SameFile(WatchFile(task[t].path))
         /\ SameFile(OriginalsFile(task[t].path))
         /\ task'[t].pc \notin {"archive", "mvcopy", "mvremove"}]_vars

\* A task returns after every record copy it attempted failed; the source is
\* in place.
C3_Witness ==
  \E t \in TaskIds :
    /\ task[t].pc = "return"
    /\ task[t].idx >= 1
    /\ task[t].successCount = 0
    /\ Len(task[t].doc) = 2
    /\ Exists(WatchFile(task[t].path))
    /\ fs[WatchFile(task[t].path)] = task[t].doc
    /\ ~Exists(OriginalsFile(task[t].path))

\* C4 as stated: when a commit with at least one successful record copy ends,
\* the source is gone from its path and originals/<basename> exists.
C4_CopiedImpliesArchived ==
  [][\A t \in TaskIds :
       (TaskStep(t) /\ EndsCommit(t) /\ task'[t].successCount > 0) =>
         /\ ~HasFile(fs', WatchFile(task[t].path))
         /\ HasFile(fs', OriginalsFile(task[t].path))]_vars

\* C4 amended: when a commit with at least one successful record copy ends and
\* robustMove returned nil, the source is gone from its path and
\* originals/<basename> holds its bytes; when the archive step failed, the
\* source is still at its path with its bytes.
C4_ArchivedWhenMoved ==
  [][\A t \in TaskIds :
       (TaskStep(t) /\ EndsCommit(t) /\ task'[t].successCount > 0) =>
         IF task'[t].moved
           THEN /\ ~HasFile(fs', WatchFile(task[t].path))
                /\ HasFile(fs', OriginalsFile(task[t].path))
                /\ fs'[OriginalsFile(task[t].path)] = task[t].doc
           ELSE /\ HasFile(fs', WatchFile(task[t].path))
                /\ fs'[WatchFile(task[t].path)] = task[t].doc]_vars

\* A commit has ended with a record copied and the source archived.
C4_Witness ==
  \E t \in TaskIds :
    /\ task[t].pc \in {"return", "cleanup"}
    /\ task[t].successCount > 0
    /\ task[t].moved
    /\ Len(task[t].doc) = 2
    /\ ~Exists(WatchFile(task[t].path))
    /\ fs[OriginalsFile(task[t].path)] = task[t].doc

\* C5: a path is in the In-Flight Set exactly when a task spawned for it has
\* not ended, and while the process runs an event for a path that is not in
\* the set starts a task.
C5_InFlightIffRunning ==
  \A p \in paths :
    /\ p \in activeFiles <=> Running(p) # {}
    /\ (alive /\ p \notin activeFiles) =>
         /\ ENABLED (HandleEvent(p, "write") /\ Running(p)' # {})
         /\ ~ENABLED (HandleEvent(p, "write") /\ Running(p)' = {})

\* A second task runs for a path whose earlier task has archived a file.
C5_Witness ==
  \E t \in TaskIds :
    /\ task[t].pc \in {"wait", "debounce"}
    /\ Exists(OriginalsFile(task[t].path))
    /\ task[t].path \in activeFiles

\* The program counters of a task before the commit step (and the deferred
\* DeleteFile, wherever it runs).
PreCommitPcs == {"wait", "debounce", "growth", "open", "poll", "cleanup"}

\* C6: no step of a task before its commit step changes a file or creates a
\* directory: a task that fails there leaves the watch directory and the
\* destination tree as they were.
C6_FailureBeforeCommitNoEffect ==
  [][\A t \in TaskIds :
       (TaskStep(t) /\ task[t].pc \in PreCommitPcs) => (fs' = fs /\ dirs' = dirs)]_vars

\* A task returns after a failed analysis; nothing exists under the
\* destination root.
C6_Witness ==
  \E t \in TaskIds :
    /\ task[t].pc = "return"
    /\ task[t].err
    /\ asset[t] = "deleted"
    /\ dirs = {}
    /\ DOMAIN fs = {WatchFile(task[t].path)}
    /\ fs[WatchFile(task[t].path)] = task[t].doc

\* C7: no error terminates the process or stops the event loop: events are
\* still handled.
C7_NoErrorStopsTheProcess ==
  /\ alive
  /\ \A p \in paths : ENABLED HandleEvent(p, "write")

\* C8: the asset of a task that uploaded is deleted exactly once before the
\* task ends, whatever the exit, and no poll or generation request follows the
\* delete.
C8_AssetDeletedOnce ==
  \A t \in TaskIds :
    /\ delCalls[t] <= 1
    /\ asset[t] = "deleted" <=> delCalls[t] = 1
    /\ (task[t].pc = "return" /\ task[t].doc # NoDoc) => asset[t] = "deleted"
    /\ asset[t] = "deleted" => task[t].pc \notin {"open", "poll", "cleanup"}

\* A task returns after a failed analysis with its asset deleted.
C8_Witness ==
  \E t \in TaskIds :
    /\ task[t].pc = "return"
    /\ task[t].err
    /\ asset[t] = "deleted"
    /\ delCalls[t] = 1

\* The step registers p and spawns exactly one task for it.
Spawns(p) ==
  /\ p \notin activeFiles
  /\ p \in activeFiles'
  /\ Cardinality(Running(p)') = Cardinality(Running(p)) + 1

\* C9: an event of kind create, write, rename or chmod for a path that is not
\* in the In-Flight Set is never handled otherwise than by registering the
\* path and spawning one task.
C9_FourKindsDispatch ==
  \A p \in paths, k \in {"create", "write", "rename", "chmod"} :
    (alive /\ p \notin activeFiles) => ~ENABLED (HandleEvent(p, k) /\ ~Spawns(p))

\* C10: no task of part_000 uploads a source file of which a record was
\* committed before.
C10_NoDoubleProcessing ==
  variant = "main" => \A t \in TaskIds : ~task[t].reup

\* The task of path p polls an asset the service reports as processing.
Processing(p) ==
  \E t \in TaskIds :
    task[t].path = p /\ task[t].pc = "poll" /\ task[t].upState = "processing"

\* C11 as stated: every task the loop dispatched ends: a path that is in the
\* In-Flight Set eventually leaves it, whatever the file and the remote service
\* do.
C11_EveryTaskTerminates ==
  \A p \in AllPaths : (p \in activeFiles) ~> (p \notin activeFiles)

\* C11 amended: a path that is in the In-Flight Set eventually leaves it,
\* unless the remote service reports the task's asset as processing for ever.
C11_TerminatesUnlessProcessingForever ==
  \A p \in AllPaths :
    \/ (p \in activeFiles) ~> (p \notin activeFiles)
    \/ <>[]Processing(p)

\* An asset was reported as processing by an odd number of polls and then as
\* active: the task has left the poll loop.
C11_Witness ==
  \E t \in TaskIds :
    task[t].pc = "poll" /\ task[t].upState = "active" /\ task[t].tick = 1

\* C12: when waitForStableFile returns nil, the size it sampled was the same
\* on every poll of a span of at least the stability threshold that ends at the
\* return: the sample of the returning poll and those of the StabilityPolls
\* polls before it are equal.
C12_StableForThreshold ==
  \A t \in TaskIds :
    (variant = "main" /\ task[t].pc = "open") =>
      /\ Len(task[t].window) = StabilityPolls
      /\ \A i \in 1..StabilityPolls : task[t].window[i] = task[t].lastSize
      /\ task[t].lastSize = Size(fs[WatchFile(task[t].path)])

\* waitForStableFile returned nil for a file whose size changed while it
\* polled: more polls were taken than an unchanged file needs.
C12_Witness ==
  \E t \in TaskIds :
    /\ variant = "main"
    /\ task[t].pc = "open"
    /\ task[t].elapsed > StabilityPolls

\* C13: the pipeline never treats a file of size zero as ready: no task
\* uploads a source that is empty when the task opens it.
C13_ZeroSizeNeverReady ==
  \A t \in TaskIds : task[t].doc # NoDoc => Len(task[t].doc) > 0

\* The task of path p is in waitForStableFile.
Waiting(p) == \E t \in Running(p) : task[t].pc = "wait"

\* C14: waitForStableFile terminates whatever the file does: it is never
\* polling later than the first poll after the maximum wait, a poll returns the
\* timeout error exactly when more than the maximum wait has elapsed since the
\* start (so no such poll returns nil), and every wait ends.
C14_WaitTimesOut ==
  /\ [](\A t \in TaskIds : task[t].pc = "wait" => task[t].elapsed <= MaxWaitPolls + 1)
  /\ [][\A t \in TaskIds :
          (task[t].pc = "wait" /\ task'[t] # task[t]) =>
            ((task[t].elapsed > MaxWaitPolls)
               <=> (task'[t].pc = "return" /\ task'[t].waitErr = "timeout"))]_vars
  /\ \A p \in AllPaths : Waiting(p) ~> ~Waiting(p)

\* A wait on a file that stayed at size zero has returned the timeout error.
C14_Witness ==
  \E t \in TaskIds :
    /\ task[t].pc = "return"
    /\ task[t].waitErr = "timeout"
    /\ Exists(WatchFile(task[t].path))
    /\ fs[WatchFile(task[t].path)] = <<>>

\* C15: parseGeminiResponse gives one record for a text that is one record
\* object, the n records in order for a text that is an array of n record
\* objects, and the parse error with no records for any other text; nothing is
\* committed for the empty array.
C15_ParseObjectThenArray ==
  \A t \in TaskIds :
    LET tk == task[t] IN
    (variant = "main" /\ tk.resp # NoResp) =>
      CASE tk.resp.shape = "object" -> ~tk.err /\ tk.dataList = <<tk.resp.recs[1]>>
        [] tk.resp.shape = "array" ->
             /\ ~tk.err
             /\ tk.dataList = tk.resp.recs
             /\ tk.resp.recs = <<>> => tk.pc = "cleanup"
        [] OTHER -> tk.err /\ tk.dataList = <<>>

\* C16: when robustMove's rename failed with the cross-device condition, a
\* successful fallback leaves the source absent and the destination holding
\* the bytes the source held; a failed fallback copy returns the error with
\* the source in place and unchanged.
C16_CrossDeviceFallback ==
  [][\A t \in TaskIds :
       LET w == WatchFile(task[t].path)
           o == OriginalsFile(task[t].path)
       IN  TaskStep(t) =>
             /\ (task[t].pc = "mvremove" /\ task'[t].moved) =>
                   /\ ~HasFile(fs', w)
                   /\ HasFile(fs', o)
                   /\ fs'[o] = fs[w]
                   /\ fs'[o] = task[t].doc
             /\ (task[t].pc = "archive" /\ task'[t].renameRes = "cross-device"
                   /\ EndsCommit(t)) =>
                   /\ ~task'[t].moved
                   /\ fs' = fs
             /\ (task[t].pc = "mvcopy" /\ EndsCommit(t)) =>
                   /\ ~task'[t].moved
                   /\ HasFile(fs, w)
                   /\ SameFile(w)
                   /\ fs'[w] = task[t].doc]_vars

\* robustMove has returned nil through its fallback: the two-byte source is
\* gone and originals/<basename> holds its bytes.
C16_Witness ==
  \E t \in TaskIds :
    /\ task[t].pc \in {"return", "cleanup"}
    /\ task[t].renameRes = "cross-device"
    /\ task[t].moved
    /\ Len(task[t].doc) = 2
    /\ ~Exists(WatchFile(task[t].path))
    /\ fs[OriginalsFile(task[t].path)] = task[t].doc

\* C17: when robustMove's rename fails for another reason than the
\* cross-device condition, robustMove returns the error without the fallback:
\* the source and the destination path are as they were.
C17_OtherRenameErrorNoFallback ==
  [][\A t \in TaskIds :
       (TaskStep(t) /\ task[t].pc = "archive" /\ task'[t].renameRes = "error") =>
         /\ SameFile(WatchFile(task[t].path))
         /\ SameFile(OriginalsFile(task[t].path))
         /\ fs' = fs
         /\ task'[t].pc \in {"return", "cleanup"}
         /\ ~task'[t].moved]_vars

\* robustMove has returned a rename error that is not the cross-device one;
\* the source is in place and nothing is at the destination path.
C17_Witness ==
  \E t \in TaskIds :
    /\ task[t].pc \in {"return", "cleanup"}
    /\ task[t].renameRes = "error"
    /\ Len(task[t].doc) = 2
    /\ fs[WatchFile(task[t].path)] = task[t].doc
    /\ ~Exists(OriginalsFile(task[t].path))

\* The indices 1..n in order.
Indices(n) == [i \in 1..n |-> i]

\* C18: saveAndArchive calls saveProcessedFile for every record once and in
\* order, whatever the earlier calls returned; it decides on the archive step
\* only after the last record, and runs it exactly when at least one copy
\* succeeded.
C18_EveryRecordAttempted ==
  /\ [](\A t \in TaskIds :
          LET tk == task[t] IN
          variant = "main" =>
            /\ tk.pc = "save" => tk.attempts = Indices(tk.idx - 1)
            /\ tk.pc = "copy" => tk.attempts = Indices(tk.idx)
            /\ tk.pc \in {"archive", "mvcopy", "mvremove"} =>
                  tk.attempts = Indices(Len(tk.dataList)) /\ tk.successCount >= 1)
  /\ [][\A t \in TaskIds :
          (variant = "main" /\ TaskStep(t) /\ task[t].pc \in {"save", "copy"}
             /\ task'[t].pc \notin {"save", "copy"}) =>
            /\ task'[t].attempts = Indices(Len(task[t].dataList))
            /\ task'[t].pc \in {"archive", "return"}
            /\ task'[t].pc = "archive" <=> task'[t].successCount >= 1]_vars

\* The copy of the first of two records failed, the copy of the second
\* succeeded, and the archive step runs.
C18_Witness ==
  \E t \in TaskIds :
    /\ variant = "main"
    /\ task[t].pc = "archive"
    /\ task[t].attempts = <<1, 2>>
    /\ task[t].successCount = 1
    /\ ~Exists(ProcessedPath(task[t].path, task[t].dataList[1]))

\* The categories of the prompt, and the default.
Categories == {"Medical", "Grocery", "Tax", "Utilities", "Septic", "Other", "Unsorted"}

\* C19: every processed copy is in a subdirectory of the destination root
\* named after one of the fixed categories.
C19_FiledUnderKnownCategory ==
  \A f \in DOMAIN fs : f[1] \in Categories \cup {"watch", "originals"}

\* The extension of p is .jpg, .jpeg, .png or .pdf in some letter case (the
\* spellings listed are those a path of the model may have).
IsTarget(p) == Ext(p) \in {".jpg", ".JPG", ".jpeg", ".png", ".pdf", ".PDF"}

\* C20: a task for a path that is not a target document uploads nothing and
\* creates, copies, moves and deletes no file; a task whose path is a target
\* document, in any letter case, is not ended by the filter.
C20_ExtensionFilter ==
  /\ [](\A t \in TaskIds :
          (task[t].pc # "idle" /\ ~IsTarget(task[t].path)) =>
            /\ task[t].pc \in {"wait", "debounce", "return"}
            /\ task[t].doc = NoDoc
            /\ asset[t] = "none")
  /\ [][\A t \in TaskIds :
          (TaskStep(t) /\ ~IsTarget(task[t].path)) =>
            (fs' = fs /\ dirs' = dirs /\ asset' = asset)]_vars
  /\ [][\A t \in TaskIds :
          ((task[t].pc = "wait" /\ task'[t].pc = "return" /\ task'[t].waitErr = "")
             \/ (task[t].pc = "debounce" /\ task'[t].pc = "return"
                   /\ Exists(WatchFile(task[t].path))))
            => ~IsTarget(task[t].path)]_vars

\* The task of note.txt has returned from processEvent without an error of
\* waitForStableFile: the filter ended it; the file is in place.
C20_Witness ==
  \E t \in TaskIds :
    /\ variant = "main"
    /\ task[t].pc = "return"
    /\ task[t].waitErr = ""
    /\ ~IsTarget(task[t].path)
    /\ Exists(WatchFile(task[t].path))
    /\ Len(fs[WatchFile(task[t].path)]) = 2
    /\ DOMAIN fs = {WatchFile(task[t].path)}

\* Some file of the destination tree holds the bytes d in files.
InDestTree(files, d) ==
  \E f \in DOMAIN files : f[1] # "watch" /\ files[f] = d

\* C21: no archived document is lost: when originals/<basename> holds the
\* bytes of a source document, the destination tree still holds those bytes
\* after every step of part_000, those of a later file of the same basename
\* included.
C21_ArchivedNeverLost ==
  [][\A p \in AllPaths, d \in Docs :
       (variant = "main" /\ HasFile(fs, OriginalsFile(p)) /\ fs[OriginalsFile(p)] = d) =>
         InDestTree(fs', d)]_vars

\* The tasks that have returned with at least one record copied.
Committed == {t \in TaskIds : task[t].pc = "return" /\ task[t].successCount >= 1}

\* C22: tasks for different paths do not interfere in the destination tree:
\* when the tasks of all paths have returned with their record copied, every
\* file under a category directory holds the complete bytes of one of their
\* sources, also when the records map to the same file name.
C22_NoInterference ==
  (\A p \in paths : \E t \in Committed : task[t].path = p) =>
    \A f \in DOMAIN fs :
      f[1] \notin {"watch", "originals"} =>
        \E t \in Committed : fs[f] = task[t].doc
====
